---- MODULE Spec2Model ----
(***************************************************************************)
(* Model of the POST /analyze handler of server.js: paginated search,      *)
(* batch dispatch to the classifier with per-batch failure isolation, and  *)
(* combineAnalyses, the merge of the batch analyses into one report.       *)
(*                                                                         *)
(* JavaScript values are modelled as follows.                              *)
(*  - A video-metadata record is its videoId, a positive integer.          *)
(*  - A value returned by JSON.parse in analyzeBatch is a record with the  *)
(*    fields of a batch analysis plus isNull (the value was JSON null).    *)
(*    An absent array field and an empty array behave alike under `|| []`  *)
(*    and are both the empty sequence; an absent batch_failed is FALSE;    *)
(*    an absent disclaimer and "" are both falsy and are both "".          *)
(*  - ranked_list is tagged: "list" (a JSON array of entries), "absent",   *)
(*    or "scalar" (a truthy value that is not an array, e.g. 7 or one      *)
(*    entry object), which carries that value.                             *)
(*  - A ranked_list entry is [videoId, risk]; risk "Critical" stands for   *)
(*    any string outside High/Medium/Low, "undefined" for a missing risk.  *)
(***************************************************************************)
EXTENDS Integers, Sequences, FiniteSets, TLC

(* ------------------------- program constants --------------------------- *)
targetResults == 100
maxResultsPerPage == 50
batchSize == 10
topPrioritySlice == 10
searchDelayMs == 500
batchDelayMs == 1000
mockVideoCount == 100

(* ------------------------------ bounds --------------------------------- *)
\* Value at which the page counter saturates; the code uses it in log lines only,
\* and the model to tell the first page request from the later ones.
MaxPages == 2
\* Classifier calls of one request whose outcome is not the plain analysis.
MaxFaults == 2
\* Length of the batch-analysis lists given to combineAnalyses on its own.
MaxBatches == 3
\* Latest value of Date.now(), in ms after the start of the day considered.
MaxClock == 1

NoToken == 0
Tokens == {1, 2}

DefaultDisclaimer ==
  "This is an automated risk-assessment, not legal advice; consult counsel before taking legal action."
PlaceholderDisclaimer == "Analysis incomplete due to API error"

Min(a, b) == IF a < b THEN a ELSE b
CeilDiv(a, b) == (a + b - 1) \div b

(* ------------------------- JavaScript helpers -------------------------- *)
RECURSIVE FlatMap(_, _)
\* Array.prototype.flatMap over per-analysis sequences f[i]
FlatMap(f, n) == IF n = 0 THEN <<>> ELSE FlatMap(f, n - 1) \o f[n]

RECURSIVE FilterSeq(_, _)
\* Array.prototype.filter with the predicate given as the set of kept values
FilterSeq(s, keep) ==
  IF s = <<>> THEN <<>>
  ELSE (IF Head(s) \in keep THEN <<Head(s)>> ELSE <<>>) \o FilterSeq(Tail(s), keep)

RECURSIVE UniqueInOrder(_, _)
\* [...new Set(s)]: insertion order of first occurrences
UniqueInOrder(s, seen) ==
  IF s = <<>> THEN <<>>
  ELSE IF Head(s) \in seen THEN UniqueInOrder(Tail(s), seen)
       ELSE <<Head(s)>> \o UniqueInOrder(Tail(s), seen \cup {Head(s)})

\* Array.prototype.slice(0, n)
SliceFront(s, n) == SubSeq(s, 1, Min(n, Len(s)))

RECURSIVE Reverse(_)
Reverse(s) == IF s = <<>> THEN <<>> ELSE Reverse(Tail(s)) \o <<Head(s)>>

(* ---------------------- ranked_list entries and sort ------------------- *)
ValidRisks == {"High", "Medium", "Low"}
Risks == ValidRisks \cup {"Critical"}

Entry(id, r) == [videoId |-> id, risk |-> r]
\* a truthy ranked_list that is not an array, as flatMap appends it: the value
\* itself, read as an entry. It has no videoId; its risk is "undefined" when it
\* has none (a number, a string) or the risk of the object.
ScalarItem(r) == Entry(0, r)
ScalarRisks == {"undefined", "High"}

\* riskPriority = { High: 3, Medium: 2, Low: 1 }; other keys give undefined
riskPriority(r) ==
  CASE r = "High" -> 3 [] r = "Medium" -> 2 [] r = "Low" -> 1 [] OTHER -> 0

\* (a, b) => riskPriority[b.risk] - riskPriority[a.risk]; a NaN result is
\* taken as +0 by Array.prototype.sort
compareRisk(a, b) ==
  IF a.risk \in ValidRisks /\ b.risk \in ValidRisks
  THEN riskPriority(b.risk) - riskPriority(a.risk)
  ELSE 0

RECURSIVE RunEnd(_, _, _)
\* length of the initial run of s, idx the next 1-based position to examine
RunEnd(s, idx, descending) ==
  IF idx > Len(s) THEN Len(s)
  ELSE LET order == compareRisk(s[idx], s[idx - 1])
       IN IF (descending /\ order >= 0) \/ (~descending /\ order < 0)
          THEN idx - 1
          ELSE RunEnd(s, idx + 1, descending)

\* the engine's run detection: a strictly descending initial run is reversed
CountAndMakeRun(s) ==
  LET descending == compareRisk(s[2], s[1]) < 0
      n == RunEnd(s, 3, descending)
  IN [run |-> n,
      arr |-> IF descending
              THEN Reverse(SubSeq(s, 1, n)) \o SubSeq(s, n + 1, Len(s))
              ELSE s]

RECURSIVE BinarySearchSlot_Unstable(_, _, _, _)
\* mutant: `order <= 0` puts the pivot before the elements it ties with
BinarySearchSlot_Unstable(s, pivot, left, right) ==
  IF left >= right THEN left
  ELSE LET mid == left + ((right - left) \div 2)
       IN IF compareRisk(pivot, s[mid + 1]) <= 0
          THEN BinarySearchSlot_Unstable(s, pivot, left, mid)
          ELSE BinarySearchSlot_Unstable(s, pivot, mid + 1, right)

RECURSIVE BinarySearchSlot(_, _, _, _)
\* 0-based insertion slot of pivot in s[left .. right-1]
BinarySearchSlot(s, pivot, left, right) ==
  IF left >= right THEN left
  ELSE LET mid == left + ((right - left) \div 2)
       IN IF compareRisk(pivot, s[mid + 1]) < 0
          THEN BinarySearchSlot(s, pivot, left, mid)
          ELSE BinarySearchSlot(s, pivot, mid + 1, right)

RECURSIVE BinaryInsertionSort(_, _)
\* s[1..start] is sorted; insert the remaining elements one by one
BinaryInsertionSort(s, start) ==
  IF start >= Len(s) THEN s
  ELSE LET pivot == s[start + 1]
           left == BinarySearchSlot(s, pivot, 0, start)
           moved == SubSeq(s, 1, left) \o <<pivot>> \o SubSeq(s, left + 1, start)
                      \o SubSeq(s, start + 2, Len(s))
       IN BinaryInsertionSort(moved, start + 1)

\* mutant: a sort that loses the first element of its input
SortByRisk_LosesFirst(s) == IF s = <<>> THEN s ELSE Tail(s)

\* Array.prototype.sort with the risk comparator, as the engine runs it on an
\* array shorter than 64 elements (one run, then binary insertion)
SortByRisk(s) ==
  IF Len(s) < 2 THEN s
  ELSE LET r == CountAndMakeRun(s)
       IN IF r.run < Len(s) THEN BinaryInsertionSort(r.arr, r.run) ELSE r.arr

(* --------------------------- batch analyses ---------------------------- *)
RankedList(items) == [tag |-> "list", items |-> items]
RankedAbsent == [tag |-> "absent", items |-> <<>>]
RankedScalar(item) == [tag |-> "scalar", items |-> <<>>, value |-> item]

Analysis(summary, ranked, top, checklist, next, disclaimer, failed, number) ==
  [isNull |-> FALSE, summary |-> summary, ranked_list |-> ranked,
   top_priority |-> top, checklist |-> checklist, next_actions |-> next,
   disclaimer |-> disclaimer, batch_failed |-> failed, batch_number |-> number]

\* JSON.parse("null")
NullAnalysis ==
  [Analysis("", RankedAbsent, <<>>, <<>>, <<>>, "", FALSE, 0) EXCEPT !.isNull = TRUE]

\* the placeholder pushed by the catch block of the batch loop
FailurePlaceholder(batchNumber) ==
  Analysis("Analysis failed for batch", RankedList(<<>>), <<>>, <<>>, <<>>,
           PlaceholderDisclaimer, TRUE, batchNumber)

\* analysis.ranked_list || []  as flatMap flattens it
RankedItemsOf(a) ==
  CASE a.ranked_list.tag = "list" -> a.ranked_list.items
    [] a.ranked_list.tag = "scalar" -> <<a.ranked_list.value>>
    [] OTHER -> <<>>

(* --------------------------- combineAnalyses --------------------------- *)
\* reading a property of null throws a TypeError in the first flatMap
combineThrows(analyses) == \E k \in 1..Len(analyses) : analyses[k].isNull

allRankedLists(analyses) ==
  FlatMap([k \in 1..Len(analyses) |-> RankedItemsOf(analyses[k])], Len(analyses))

allTopPriority(analyses) ==
  FlatMap([k \in 1..Len(analyses) |-> analyses[k].top_priority], Len(analyses))

\* mutant: the Set is forgotten, duplicates stay
uniqueTopPriority_NoDedup(analyses) ==
  SliceFront(allTopPriority(analyses), topPrioritySlice)

uniqueTopPriority(analyses) ==
  SliceFront(UniqueInOrder(allTopPriority(analyses), {}), topPrioritySlice)

\* mutant: the filter on batch_failed is forgotten
successfulAnalyses_NoFilter(analyses) == analyses

successfulAnalyses(analyses) ==
  FilterSeq(analyses, {a \in {analyses[k] : k \in 1..Len(analyses)} : ~a.batch_failed})

pickChecklist(analyses) ==
  LET ok == successfulAnalyses(analyses)
  IN IF ok = <<>> THEN <<>> ELSE ok[1].checklist

pickNextActions(analyses) ==
  LET ok == successfulAnalyses(analyses)
  IN IF ok = <<>> THEN <<>> ELSE ok[1].next_actions

\* successfulAnalyses[0]?.disclaimer || "<default>": "" is falsy
pickDisclaimer(analyses) ==
  LET ok == successfulAnalyses(analyses)
  IN IF ok = <<>> \/ ok[1].disclaimer = "" THEN DefaultDisclaimer ELSE ok[1].disclaimer

CountRisk(items, r) == Cardinality({k \in 1..Len(items) : items[k].risk = r})

\* mutant: the count leaves the Medium entries out
makeSummary_HighOnly(items) ==
  [count |-> CountRisk(items, "High"),
   qualifier |-> IF CountRisk(items, "High") > 0 THEN "attention" ELSE "no_concerns"]

\* the two variable parts of the summary template string
makeSummary(items) ==
  LET totalHighRisk == CountRisk(items, "High")
      totalMediumRisk == CountRisk(items, "Medium")
  IN [count |-> totalHighRisk + totalMediumRisk,
      qualifier |-> IF totalHighRisk > 0 THEN "attention" ELSE "no_concerns"]

countFailedBatches(analyses) ==
  Cardinality({k \in 1..Len(analyses) : analyses[k].batch_failed})

(* ---------------- combineAnalyses and the arrays it touches -------------- *)
\* Array.prototype.sort reorders the array it is called on, so which array
\* object that is decides whether the inputs survive the call. The arrays are
\* cells of a heap: cell k is the ranked_list array of analyses[k] (empty when
\* that ranked_list is not an array), later cells are arrays the call creates.
\* The other array methods used (filter, slice, the Set spread) and flatMap
\* only read the arrays they are given.
heapOf(analyses) ==
  [k \in 1..Len(analyses) |->
     IF analyses[k].ranked_list.tag = "list" THEN analyses[k].ranked_list.items
     ELSE <<>>]

\* the items flatMap reads from the heap: the cell of an array ranked_list,
\* the value itself for another truthy ranked_list, nothing otherwise
RankedItemsIn(heap, analyses, k) ==
  IF analyses[k].ranked_list.tag = "list" THEN heap[k]
  ELSE RankedItemsOf(analyses[k])

\* mutant: the items of the later batches are pushed onto the first batch's
\* own array, which is returned
flatMapRanked_IntoFirst(heap, analyses) ==
  LET all == FlatMap([k \in 1..Len(analyses) |-> RankedItemsIn(heap, analyses, k)],
                     Len(analyses))
  IN  IF Len(analyses) >= 1 /\ analyses[1].ranked_list.tag = "list"
      THEN [heap |-> [heap EXCEPT ![1] = all], ref |-> 1]
      ELSE [heap |-> Append(heap, all), ref |-> Len(heap) + 1]

\* analyses.flatMap(analysis => analysis.ranked_list || []): a new array
flatMapRanked(heap, analyses) ==
  [heap |-> Append(heap,
                   FlatMap([k \in 1..Len(analyses) |-> RankedItemsIn(heap, analyses, k)],
                           Len(analyses))),
   ref |-> Len(heap) + 1]

\* allRankedLists.sort(comparator): sorts the array in place and returns it
sortInPlace(heap, ref) == [heap EXCEPT ![ref] = SortByRisk(@)]

\* the heap when combineAnalyses returns, the cell its ranked_list is, and
\* what the filters of the summary read in that cell before the sort: flatMap
\* makes the array, every later step but the sort only reads
runCombine(analyses) ==
  LET before == heapOf(analyses)
      made == flatMapRanked(before, analyses)
  IN  [heap |-> sortInPlace(made.heap, made.ref), ref |-> made.ref,
       counted |-> made.heap[made.ref]]

\* one call of combineAnalyses that returns: the object returned, its
\* ranked_list being the array sort returned, and the argument list as the
\* call leaves it, each batch analysis with the contents its ranked_list
\* array has at the end
combineCall(analyses) ==
  LET done == runCombine(analyses)
  IN  [value |-> [summary |-> makeSummary(done.counted),
                  ranked_list |-> done.heap[done.ref],
                  top_priority |-> uniqueTopPriority(analyses),
                  checklist |-> pickChecklist(analyses),
                  next_actions |-> pickNextActions(analyses),
                  disclaimer |-> pickDisclaimer(analyses),
                  batch_count |-> Len(analyses),
                  failed_batches |-> countFailedBatches(analyses)],
       inputs |-> [k \in 1..Len(analyses) |->
                     IF analyses[k].ranked_list.tag = "list"
                     THEN [analyses[k] EXCEPT !.ranked_list.items = done.heap[k]]
                     ELSE analyses[k]]]

combineAnalyses(analyses) == combineCall(analyses).value

(* ------------------------- generateMockResults ------------------------- *)
\* mutant: the entries after the fifth carry a level outside the three
mockRisk_Unrated(index) == IF index < 5 THEN "High" ELSE "Critical"

mockRisk(index) == IF index < 5 THEN "High" ELSE IF index < 10 THEN "Medium" ELSE "Low"

\* values Date.now() may return: the ms elapsed in the day of the call
Clock == 0..MaxClock

\* new Date(Date.now() - n * 86400000).toISOString(): the instant n days
\* before the reading `now`, written as its date (a day number, the day of the
\* call being 0) and its time of day in ms (86400000 ms make a day)
daysBefore(now, n) == <<0 - n, now>>

\* Date.now() is read twice per record, 200 times in a call, and the clock may
\* advance between any two readings
clockReads == 2 * mockVideoCount

\* how the clock runs during one call: run[j] is the number of readings made
\* before the clock reaches ms j, so the readings never decrease
ClockRuns ==
  {run \in [1..MaxClock -> 0..clockReads] :
     \A j \in 1..MaxClock : \A k \in j..MaxClock : run[j] <= run[k]}

\* the value of the n-th Date.now() of the call
readingAt(run, n) == Cardinality({j \in 1..MaxClock : run[j] < n})

\* a mock video record: its videoId and its two timestamps, each i days before
\* its own reading of the clock (lines 640 and 648)
mockVideo(index, run) ==
  [videoId |-> index,
   publishedAt |-> daysBefore(readingAt(run, 2 * index - 1), index),
   publishTime |-> daysBefore(readingAt(run, 2 * index), index)]

\* run: how the clock advanced during the call
generateMockResults(user, channel, run) ==
  LET searchResults == [k \in 1..mockVideoCount |-> mockVideo(k, run)]
  IN
  [userName |-> user,
   query |-> channel,
   totalVideosFound |-> 100,
   batchesAnalyzed |-> 10,
   searchResults |-> searchResults,
   analysis |->
     [summary |-> [count |-> 15, qualifier |-> "attention"],
      ranked_list |-> [k \in 1..20 |->
                         [videoId |-> k, risk |-> mockRisk(k - 1),
                          publishedAt |-> searchResults[k].publishedAt]],
      top_priority |-> <<1, 2, 3, 4, 5>>,
      checklist |-> <<"Open video and compare audio/duration",
                      "Check description for rights statement",
                      "Check channel About page",
                      "Screenshot evidence",
                      "Check YouTube Content ID/claims if visible">>,
      next_actions |-> <<"Contact rights owner",
                         "Use YouTube Studio -> Copyright -> Submit takedown (if owner)",
                         "Send polite removal request to uploader (template)">>,
      disclaimer |-> DefaultDisclaimer,
      batch_count |-> 10]]

(* ------------------------------- state --------------------------------- *)
VARIABLES
  pc,                \* position of the handler: start, search_await, search_sleep,
                     \* batch_await, batch_sleep, done (m_build, m_done: merge alone)
  userName, channelName,   \* req.body
  youtubeKey, openaiKey,   \* whether process.env holds each key
  allSearchResults,  \* videoIds accumulated by the pagination loop
  nextPageToken,     \* continuation token of the last page, NoToken if none
  pageCount,         \* pages requested so far (saturates at MaxPages)
  request,           \* params of the last search request issued
  i,                 \* index of the batch loop
  allAnalyses,       \* accumulation list of batch analyses
  failedBatches,     \* failure-detail records
  finalAnalysis,     \* result of combineAnalyses
  status, response,  \* the HTTP response (status 0: none sent yet)
  dispatched,        \* history: the classifier calls issued, in order
  threw,             \* history: for each completed classifier call, whether it threw
  faults,            \* history: classifier outcomes other than the plain analysis
  caught,            \* history: the last exception caught (youtubeError, openaiError)
  delivered,         \* history: the videoIds of the items the search API delivered
  waited,            \* history: ms of pacing delay slept since the last outbound call ended
  content,           \* the classifier's output text given to the parser (SpecParse)
  browser            \* the page of the browser form (SpecForm)

vars == <<pc, userName, channelName, youtubeKey, openaiKey, allSearchResults,
          nextPageToken, pageCount, request, i, allAnalyses, failedBatches,
          finalAnalysis, status, response, dispatched, threw, faults, caught,
          delivered, waited, content, browser>>

\* variables of the parser and of the browser form, untouched by the handler
aside == <<content, browser>>
NoContent == <<>>
NoBrowser == [none |-> TRUE]

Unset == [unset |-> TRUE]
NoRequest == [maxResults |-> 0, pageToken |-> NoToken]
Nothing == [stage |-> "none", at |-> 0, message |-> ""]

(* --------------------------- the environment --------------------------- *)
\* error.message of a failed axios.get
SearchErrors == {"Network Error", "Request failed with status code 403"}
\* a raw item of searchResponse.data.items: whether it has an id object and a
\* snippet object, and the videoId its id object holds
RawItem(id, hasId, hasSnippet) == [videoId |-> id, hasId |-> hasId, hasSnippet |-> hasSnippet]
\* raw items lacking one of the nested objects
BadItems(id) == {RawItem(id, FALSE, TRUE), RawItem(id, TRUE, FALSE)}
\* item.id.videoId, item.snippet.title, ...: reading a property of undefined throws
normalizeThrows(item) == ~item.hasId \/ ~item.hasSnippet
\* message of that TypeError; item.id.videoId is read first
ItemTypeError(item) ==
  IF ~item.hasId THEN "Cannot read properties of undefined (reading 'videoId')"
  ELSE "Cannot read properties of undefined (reading 'title')"
\* error.message of a failed analyzeBatch: the call itself (here on the odd
\* batches), or JSON.parse of text that is not JSON (on the even ones)
ClassifierError(batchNumber) ==
  IF batchNumber % 2 = 1 THEN "Connection error." ELSE "Unexpected token in JSON"
\* message of the TypeError combineAnalyses throws on a null analysis
NullTypeError == "Cannot read properties of null (reading 'ranked_list')"

\* number of items a page may carry, never more than was asked for
PageSizes(maxResults) == {k \in {0, 35, maxResults} : k <= maxResults}
\* a short result set that fits one page and has no continuation
ShortPage == 7
\* continuation tokens are opaque and differ from page to page
FreshToken(sent) == IF sent = 1 THEN 2 ELSE 1

\* the analysis a well-behaved classifier returns for a batch
PlainAnalysis(batch, batchNumber) ==
  Analysis("batch summary",
           RankedList(<<Entry(batch[1],
                              CASE batchNumber % 3 = 1 -> "Low"
                                [] batchNumber % 3 = 2 -> "High"
                                [] OTHER -> "Medium")>>),
           <<batch[Len(batch)], batch[1]>>,
           <<"check">>, <<"act">>, "model disclaimer", FALSE, 0)

\* values JSON.parse may return that are not the plain analysis
OddAnalyses(batch, batchNumber) ==
  { NullAnalysis,
    [PlainAnalysis(batch, batchNumber) EXCEPT !.batch_failed = TRUE] }

(* ----------------------------- the handler ----------------------------- *)
TypeOK ==
  /\ pc \in {"start", "search_await", "search_sleep", "batch_await", "batch_sleep",
             "done", "m_build", "m_sleep", "m_done", "m_again", "m_twice"}
  /\ status \in {0, 200, 400, 404, 500}
  /\ pageCount \in 0..MaxPages
  /\ nextPageToken \in {NoToken} \cup Tokens
  /\ i \in Nat
  /\ Len(threw) = Len(allAnalyses)
  /\ faults \in 0..MaxFaults

Init ==
  /\ pc = "start"
  /\ userName \in {"", "Artist"}
  /\ channelName \in {"", "ArtistOfficial"}
  /\ youtubeKey \in BOOLEAN
  /\ openaiKey \in BOOLEAN
  /\ allSearchResults = <<>>
  /\ nextPageToken = NoToken
  /\ pageCount = 0
  /\ request = NoRequest
  /\ i = 0
  /\ allAnalyses = <<>>
  /\ failedBatches = <<>>
  /\ finalAnalysis = Unset
  /\ status = 0
  /\ response = Unset
  /\ dispatched = <<>>
  /\ threw = <<>>
  /\ faults = 0
  /\ caught = Nothing
  /\ delivered = <<>>
  /\ waited = 0
  /\ content = NoContent
  /\ browser = NoBrowser

\* mutant: only userName is validated
invalidInput_UserOnly(user, channel) == user = ""

\* !userName || !channelName; "" stands for every falsy value, a missing field included
invalidInput(user, channel) == user = "" \/ channel = ""

\* mutant: mock data only when both keys are missing
useMock_BothMissing(searchKey, textKey) == ~searchKey /\ ~textKey

\* !process.env.YOUTUBE_API_KEY || !process.env.OPENAI_API_KEY
useMock(searchKey, textKey) == ~searchKey \/ ~textKey

\* mutant: the empty check is forgotten
noResults_Unchecked(results) == FALSE

\* allSearchResults.length === 0
noResults(results) == Len(results) = 0

Respond(code, body) ==
  /\ status' = code
  /\ response' = body
  /\ pc' = "done"

\* mutant: always a full page, whatever is accumulated
IssueSearch_FullPage(results, token) ==
  /\ pageCount' = Min(pageCount + 1, MaxPages)
  /\ request' = [maxResults |-> maxResultsPerPage, pageToken |-> token]
  /\ pc' = "search_await"

\* axios.get(..., { params: { maxResults, pageToken, ... } }) of one loop iteration
IssueSearch(results, token) ==
  /\ pageCount' = Min(pageCount + 1, MaxPages)
  /\ request' = [maxResults |-> Min(maxResultsPerPage, targetResults - Len(results)),
                 pageToken |-> token]
  /\ pc' = "search_await"

batchNumberAt(idx) == (idx \div batchSize) + 1
\* mutant: slice(i, i + batchSize + 1)
sliceAt_OneTooMany(results, idx) ==
  SubSeq(results, idx + 1, Min(idx + batchSize + 1, Len(results)))

sliceAt(results, idx) == SubSeq(results, idx + 1, Min(idx + batchSize, Len(results)))
totalBatches(results) == CeilDiv(Len(results), batchSize)

\* mutant: the batch at idx and the one after it are sent together
DispatchBatch_Pair(results, idx) ==
  /\ dispatched' = dispatched \o
                     << [batchNumber |-> batchNumberAt(idx),
                         batch |-> sliceAt(results, idx),
                         totalBatches |-> totalBatches(results)],
                        [batchNumber |-> batchNumberAt(idx + batchSize),
                         batch |-> sliceAt(results, idx + batchSize),
                         totalBatches |-> totalBatches(results)] >>
  /\ pc' = "batch_await"

\* analyzeBatch(batch, batchNumber, totalBatches) is called for the batch at idx
DispatchBatch(results, idx) ==
  /\ dispatched' = Append(dispatched,
                          [batchNumber |-> batchNumberAt(idx),
                           batch |-> sliceAt(results, idx),
                           totalBatches |-> totalBatches(results)])
  /\ pc' = "batch_await"

\* lines 549-574: merge, then the 200 report, or the outer catch's 500
Finish(analyses, failed) ==
  IF combineThrows(analyses)
  THEN /\ finalAnalysis' = finalAnalysis
       /\ Respond(500, [error |-> <<"An unexpected error occurred during analysis">>,
                        details |-> NullTypeError])
  ELSE /\ finalAnalysis' = combineAnalyses(analyses)
       /\ Respond(200, [userName |-> userName,
                        query |-> channelName,
                        totalVideosFound |-> Len(allSearchResults),
                        batchesAnalyzed |-> Len(analyses),
                        batchesFailed |-> Len(failed),
                        failedBatchDetails |-> failed,
                        searchResults |-> allSearchResults,
                        analysis |-> combineAnalyses(analyses)])

\* mutant: the upstream message is dropped
searchCatchBody_NoMessage(message) == [error |-> <<"YouTube API error: ", "">>]

\* body of the 500 sent by the catch of the search stage
searchCatchBody(message) == [error |-> <<"YouTube API error: ", message>>]

\* the request arrives: validation, mock branch, or the first search request
Receive ==
  /\ pc = "start"
  /\ IF invalidInput(userName, channelName)
     THEN /\ Respond(400, [error |-> <<"User name and channel name are required">>])
          /\ UNCHANGED <<pageCount, request>>
     ELSE IF useMock(youtubeKey, openaiKey)
     THEN /\ \E run \in ClockRuns : Respond(200, generateMockResults(userName, channelName, run))
          /\ UNCHANGED <<pageCount, request>>
     ELSE /\ IssueSearch(<<>>, NoToken)
          /\ UNCHANGED <<status, response>>
  /\ waited' = 0
  /\ UNCHANGED <<aside, userName, channelName, youtubeKey, openaiKey, allSearchResults,
                 nextPageToken, i, allAnalyses, failedBatches, finalAnalysis,
                 dispatched, threw, faults, caught, delivered>>

\* mutant: a failure after some results were accumulated goes on to the
\* batch stage with them
SearchFail_KeepsPartial ==
  /\ pc = "search_await"
  /\ \E msg \in SearchErrors :
       /\ caught' = [stage |-> "search", at |-> pageCount, message |-> msg]
       /\ IF allSearchResults = <<>>
          THEN /\ Respond(500, searchCatchBody(msg))
               /\ UNCHANGED dispatched
          ELSE /\ DispatchBatch(allSearchResults, 0)
               /\ UNCHANGED <<status, response>>
  /\ UNCHANGED <<aside, waited, userName, channelName, youtubeKey, openaiKey, allSearchResults,
                 nextPageToken, pageCount, request, i, allAnalyses, failedBatches,
                 finalAnalysis, threw, faults, delivered>>

\* the search request fails: the catch of lines 376-384
SearchFail ==
  /\ pc = "search_await"
  /\ \E msg \in SearchErrors :
       /\ caught' = [stage |-> "search", at |-> pageCount, message |-> msg]
       /\ Respond(500, searchCatchBody(msg))
  /\ UNCHANGED <<aside, waited, userName, channelName, youtubeKey, openaiKey, allSearchResults,
                 nextPageToken, pageCount, request, i, allAnalyses, failedBatches,
                 finalAnalysis, dispatched, threw, faults, delivered>>

\* a page of k items arrives, with or without a continuation token
SearchPage ==
  /\ pc = "search_await"
  /\ \E k \in PageSizes(request.maxResults) \cup {ShortPage},
        token \in {NoToken, FreshToken(request.pageToken)} :
       LET results == allSearchResults \o
                        [j \in 1..k |-> Len(allSearchResults) + j]
       IN /\ k = ShortPage => request.pageToken = NoToken /\ token = NoToken
          /\ allSearchResults' = results
          /\ delivered' = delivered \o [j \in 1..k |-> Len(allSearchResults) + j]
          /\ nextPageToken' = token
          /\ IF Len(results) >= targetResults \/ token = NoToken
             THEN IF noResults(results)
                  THEN /\ Respond(404, [error |-> <<"No videos found for this channel">>])
                       /\ UNCHANGED dispatched
                  ELSE /\ DispatchBatch(results, 0)
                       /\ UNCHANGED <<status, response>>
             ELSE /\ pc' = "search_sleep"
                  /\ UNCHANGED <<status, response, dispatched>>
  /\ waited' = 0
  /\ UNCHANGED <<aside, userName, channelName, youtubeKey, openaiKey, pageCount, request,
                 i, allAnalyses, failedBatches, finalAnalysis, threw, faults, caught>>

\* a page arrives with an item that has no id object or no snippet object: if
\* the map over the items throws, the catch of lines 376-384 answers; if not,
\* the item is accumulated like any other
SearchBadItem ==
  /\ pc = "search_await"
  /\ request.pageToken = NoToken
  /\ \E item \in BadItems(Len(allSearchResults) + 1) :
       /\ delivered' = Append(delivered, item.videoId)
       /\ IF normalizeThrows(item)
          THEN /\ caught' = [stage |-> "search", at |-> pageCount,
                             message |-> ItemTypeError(item)]
               /\ Respond(500, searchCatchBody(ItemTypeError(item)))
               /\ UNCHANGED <<allSearchResults, nextPageToken, dispatched>>
          ELSE /\ allSearchResults' = Append(allSearchResults, item.videoId)
               /\ nextPageToken' = NoToken
               /\ DispatchBatch(Append(allSearchResults, item.videoId), 0)
               /\ UNCHANGED <<caught, status, response>>
  /\ waited' = 0
  /\ UNCHANGED <<aside, userName, channelName, youtubeKey, openaiKey, pageCount, request,
                 i, allAnalyses, failedBatches, finalAnalysis, threw, faults>>

\* mutant: setTimeout(resolve, 0)
SearchWake_Immediate ==
  /\ pc = "search_sleep"
  /\ Len(allSearchResults) < targetResults /\ nextPageToken # NoToken
  /\ IssueSearch(allSearchResults, nextPageToken)
  /\ waited' = 0
  /\ UNCHANGED <<aside, userName, channelName, youtubeKey, openaiKey, allSearchResults,
                 nextPageToken, i, allAnalyses, failedBatches, finalAnalysis,
                 status, response, dispatched, threw, faults, caught, delivered>>

\* the 500 ms pacing delay ends: loop condition, then the next page request
SearchWake ==
  /\ pc = "search_sleep"
  /\ Len(allSearchResults) < targetResults /\ nextPageToken # NoToken
  /\ IssueSearch(allSearchResults, nextPageToken)
  /\ waited' = searchDelayMs
  /\ UNCHANGED <<aside, userName, channelName, youtubeKey, openaiKey, allSearchResults,
                 nextPageToken, i, allAnalyses, failedBatches, finalAnalysis,
                 status, response, dispatched, threw, faults, caught, delivered>>

\* analyzeBatch returns a parsed value: lines 500-508
BatchSuccess ==
  /\ pc = "batch_await"
  /\ LET batch == sliceAt(allSearchResults, i)
         number == batchNumberAt(i)
     IN \E value \in {PlainAnalysis(batch, number)} \cup OddAnalyses(batch, number) :
          /\ value # PlainAnalysis(batch, number) => faults < MaxFaults
          /\ faults' = IF value = PlainAnalysis(batch, number) THEN faults ELSE faults + 1
          /\ allAnalyses' = Append(allAnalyses, value)
          /\ threw' = Append(threw, FALSE)
          /\ IF i + batchSize < Len(allSearchResults)
             THEN /\ pc' = "batch_sleep"
                  /\ UNCHANGED <<i, finalAnalysis, status, response>>
             ELSE /\ i' = i + batchSize
                  /\ Finish(Append(allAnalyses, value), failedBatches)
  /\ waited' = 0
  /\ UNCHANGED <<aside, userName, channelName, youtubeKey, openaiKey, allSearchResults,
                 nextPageToken, pageCount, request, failedBatches, dispatched, caught, delivered>>

\* the 1000 ms pacing delay ends: i += batchSize and the next batch is dispatched
BatchWake ==
  /\ pc = "batch_sleep"
  /\ i' = i + batchSize
  /\ DispatchBatch(allSearchResults, i + batchSize)
  /\ waited' = batchDelayMs
  /\ UNCHANGED <<aside, userName, channelName, youtubeKey, openaiKey, allSearchResults,
                 nextPageToken, pageCount, request, allAnalyses, failedBatches,
                 finalAnalysis, status, response, threw, faults, caught, delivered>>

\* mutant: videosInBatch is the nominal batch size
recordFailure_NominalSize(failed, number, message, batch) ==
  Append(failed, [batchNumber |-> number, error |-> message, videosInBatch |-> batchSize])

\* failedBatches.push({ batchNumber, error: openaiError.message, videosInBatch })
recordFailure(failed, number, message, batch) ==
  Append(failed, [batchNumber |-> number, error |-> message,
                  videosInBatch |-> Len(batch)])

\* mutant: the catch block pushes no placeholder
pushPlaceholder_Forgotten(analyses, number) == analyses

\* allAnalyses.push({ ..., batch_failed: true, batch_number: batchNumber })
pushPlaceholder(analyses, number) == Append(analyses, FailurePlaceholder(number))

\* analyzeBatch throws: the catch block of lines 509-535, then the loop goes on
BatchFailure ==
  /\ pc = "batch_await"
  /\ faults < MaxFaults
  /\ LET batch == sliceAt(allSearchResults, i)
         number == batchNumberAt(i)
         failed == recordFailure(failedBatches, number, ClassifierError(number), batch)
         analyses == pushPlaceholder(allAnalyses, number)
     IN   /\ caught' = [stage |-> "batch", at |-> number,
                        message |-> ClassifierError(number)]
          /\ failedBatches' = failed
          /\ allAnalyses' = analyses
          /\ threw' = Append(threw, TRUE)
          /\ faults' = faults + 1
          /\ i' = i + batchSize
          /\ IF i + batchSize < Len(allSearchResults)
             THEN /\ DispatchBatch(allSearchResults, i + batchSize)
                  /\ UNCHANGED <<finalAnalysis, status, response>>
             ELSE /\ Finish(analyses, failed)
                  /\ UNCHANGED dispatched
  /\ waited' = 0
  /\ UNCHANGED <<aside, userName, channelName, youtubeKey, openaiKey, allSearchResults,
                 nextPageToken, pageCount, request, delivered>>

Next ==
  \/ Receive
  \/ SearchFail
  \/ SearchPage
  \/ SearchBadItem
  \/ SearchWake
  \/ BatchSuccess
  \/ BatchWake
  \/ BatchFailure

Spec == Init /\ [][Next]_vars

\* every awaited call returns or fails and every timer fires: the handler
\* always takes its next step
SpecLive == Init /\ [][Next]_vars /\ WF_vars(Next)

(* ------------------- combineAnalyses on its own ------------------------ *)
\* The batch loop's accumulation and the merge, fed with classifier outputs of
\* varied content; the search stage is left out (SpecMerge, SpecRepeat).

\* risk sequences of the ranked_list a classifier output may carry
RiskLists ==
  { <<>>, <<"High">>, <<"Medium">>, <<"Low">>, <<"Low", "High">>,
    <<"Medium", "Low", "Medium">>, <<"Low", "Low", "High">>,
    <<"High", "Medium", "High", "Medium">>,
    <<"Critical">>, <<"Low", "Critical", "High">> }

\* the entries of batch `number`: videoIds are distinct across batches
EntriesOf(number, risks) ==
  [p \in 1..Len(risks) |-> Entry(10 * number + p, risks[p])]

TopLists ==
  { <<>>, <<1, 2, 3, 4, 5, 6>>, <<5, 6, 7, 8, 9, 10, 11>>, <<3, 3, 1, 12, 3>> }

\* checklist, next_actions, disclaimer
MetaA == <<(<<"check A">>), (<<"act A">>), "disclaimer A">>
MetaB == <<(<<"check B1", "check B2">>), (<<"act B">>), "disclaimer B">>
MetaEmpty == <<(<<"check E">>), (<<"act E">>), "">>

MergeOutput(number, ranked, top, meta, failed) ==
  Analysis("batch summary", ranked, top, meta[1], meta[2], meta[3], failed, 0)

\* the parsed classifier outputs offered for batch `number`
MergeMenu(number) ==
  LET one == RankedList(EntriesOf(number, <<"Medium">>))
  IN {MergeOutput(number, RankedList(EntriesOf(number, r)), <<>>, MetaA, FALSE) :
         r \in RiskLists}
     \cup {MergeOutput(number, r, <<>>, MetaA, FALSE) :
             r \in {RankedAbsent} \cup {RankedScalar(ScalarItem(x)) : x \in ScalarRisks}}
     \cup {MergeOutput(number, one, t, MetaA, FALSE) : t \in TopLists}
     \cup {MergeOutput(number, one, <<>>, m, f) :
             m \in {MetaA, MetaB, MetaEmpty}, f \in BOOLEAN}
     \cup {NullAnalysis}

Thrown == [thrown |-> TRUE]

\* the search results the batch loop starts from: full batches and a short
\* last one
MergeVideoCounts == {batchSize * (b - 1) + ShortPage : b \in 1..MaxBatches}

InitMerge ==
  /\ pc = "m_build"
  /\ userName = "Artist"
  /\ channelName = "ArtistOfficial"
  /\ youtubeKey = TRUE
  /\ openaiKey = TRUE
  /\ \E n \in MergeVideoCounts : allSearchResults = [k \in 1..n |-> k]
  /\ nextPageToken = NoToken
  /\ pageCount = 0
  /\ request = NoRequest
  /\ i = 0
  /\ allAnalyses = <<>>
  /\ failedBatches = <<>>
  /\ finalAnalysis = Unset
  /\ status = 0
  /\ response = Unset
  /\ dispatched = <<>>
  /\ threw = <<>>
  /\ faults = 0
  /\ caught = Nothing
  /\ delivered = <<>>
  /\ waited = 0
  /\ content = NoContent
  /\ browser = NoBrowser

\* a batch completes with a parsed output: allAnalyses.push(batchAnalysis)
MergePushOutput ==
  /\ pc = "m_build"
  /\ i < Len(allSearchResults)
  /\ \E value \in MergeMenu(batchNumberAt(i)) :
       allAnalyses' = Append(allAnalyses, value)
  /\ threw' = Append(threw, FALSE)
  /\ IF i + batchSize < Len(allSearchResults)
     THEN pc' = "m_sleep" /\ UNCHANGED i
     ELSE i' = i + batchSize /\ UNCHANGED pc
  /\ waited' = 0
  /\ UNCHANGED <<aside, userName, channelName, youtubeKey, openaiKey, allSearchResults,
                 nextPageToken, pageCount, request, failedBatches, finalAnalysis,
                 status, response, dispatched, faults, caught, delivered>>

\* the 1000 ms pacing delay after a successful batch ends: i += batchSize
MergeWake ==
  /\ pc = "m_sleep"
  /\ pc' = "m_build"
  /\ i' = i + batchSize
  /\ waited' = batchDelayMs
  /\ UNCHANGED <<aside, userName, channelName, youtubeKey, openaiKey, allSearchResults,
                 nextPageToken, pageCount, request, allAnalyses, failedBatches,
                 finalAnalysis, status, response, dispatched, threw, faults,
                 caught, delivered>>

\* a batch fails: the catch block records the failure and pushes the placeholder
MergePushFailure ==
  /\ pc = "m_build"
  /\ i < Len(allSearchResults)
  /\ LET batch == sliceAt(allSearchResults, i)
         number == batchNumberAt(i)
     IN  /\ caught' = [stage |-> "batch", at |-> number,
                       message |-> ClassifierError(number)]
         /\ failedBatches' = recordFailure(failedBatches, number,
                                           ClassifierError(number), batch)
         /\ allAnalyses' = pushPlaceholder(allAnalyses, number)
  /\ threw' = Append(threw, TRUE)
  /\ i' = i + batchSize
  /\ waited' = 0
  /\ UNCHANGED <<aside, pc, userName, channelName, youtubeKey, openaiKey, allSearchResults,
                 nextPageToken, pageCount, request, finalAnalysis,
                 status, response, dispatched, faults, delivered>>

\* const finalAnalysis = combineAnalyses(allAnalyses, ...)
MergeCombine ==
  /\ pc = "m_build"
  /\ i >= Len(allSearchResults)
  /\ pc' = "m_done"
  /\ IF combineThrows(allAnalyses)
     THEN finalAnalysis' = Thrown /\ UNCHANGED allAnalyses
     ELSE LET call == combineCall(allAnalyses)
          IN  finalAnalysis' = call.value /\ allAnalyses' = call.inputs
  /\ UNCHANGED <<aside, waited, userName, channelName, youtubeKey, openaiKey, allSearchResults,
                 nextPageToken, pageCount, request, i, failedBatches,
                 status, response, dispatched, threw, faults, caught, delivered>>

\* the object combineAnalyses returned, read as a batch analysis: it has the
\* six fields of one and no batch_failed
AsBatch(merged) ==
  Analysis(merged.summary, RankedList(merged.ranked_list), merged.top_priority,
           merged.checklist, merged.next_actions, merged.disclaimer, FALSE, 0)

\* combineAnalyses([finalAnalysis], ...): the merge applied to its own output
MergeAgain ==
  /\ pc = "m_done"
  /\ finalAnalysis # Thrown
  /\ pc' = "m_again"
  /\ response' = combineAnalyses(<<AsBatch(finalAnalysis)>>)
  /\ UNCHANGED <<aside, waited, userName, channelName, youtubeKey, openaiKey, allSearchResults,
                 nextPageToken, pageCount, request, i, allAnalyses, failedBatches,
                 finalAnalysis, status, dispatched, threw, faults, caught, delivered>>

\* combineAnalyses(allAnalyses, ...) called a second time, on the list as the
\* first call left it
MergeRepeat ==
  /\ pc = "m_done"
  /\ pc' = "m_twice"
  /\ IF combineThrows(allAnalyses)
     THEN response' = Thrown /\ UNCHANGED allAnalyses
     ELSE LET call == combineCall(allAnalyses)
          IN  response' = call.value /\ allAnalyses' = call.inputs
  /\ UNCHANGED <<aside, waited, userName, channelName, youtubeKey, openaiKey, allSearchResults,
                 nextPageToken, pageCount, request, i, failedBatches,
                 finalAnalysis, status, dispatched, threw, faults, caught, delivered>>

NextMerge ==
  MergePushOutput \/ MergeWake \/ MergePushFailure \/ MergeCombine \/ MergeAgain

SpecMerge == InitMerge /\ [][NextMerge]_vars

\* the batch loop, the merge, and the merge called once more on the same list
NextRepeat ==
  MergePushOutput \/ MergeWake \/ MergePushFailure \/ MergeCombine \/ MergeRepeat

SpecRepeat == InitMerge /\ [][NextRepeat]_vars

(* -------------------- several requests in flight ----------------------- *)
\* Two invocations of the handler interleaved at their awaits (SpecConc). Every
\* variable holds one value per request; the variables the handler declares
\* with let/const are indexed by the binding cell of the invocation.
Requests == {1, 2}

\* mutant: the let/const bindings are module-level, one cell for all requests
Cell_ModuleLevel(r) == 1

\* the bindings created by invocation r of the handler: fresh for each call
Cell(r) == r

\* req.body of request r
ConcUser(r) == IF r = 1 THEN "Artist" ELSE "Band"
ConcChannel(r) == IF r = 1 THEN "ArtistOfficial" ELSE "BandTV"

\* videoIds the search API delivers for request r: its own range
VideoBase(r) == targetResults * r
\* page sizes: empty, less than a batch, more than a batch
ConcPageSizes == {0, ShortPage, ShortPage + batchSize}

\* the analysis the classifier returns for a batch: an entry and a
\* top-priority id for every video of the batch
ConcAnalysis(batch, batchNumber) ==
  Analysis("batch summary",
           RankedList([p \in 1..Len(batch) |->
                         Entry(batch[p], CASE batchNumber % 3 = 1 -> "Low"
                                           [] batchNumber % 3 = 2 -> "High"
                                           [] OTHER -> "Medium")]),
           batch, <<"check">>, <<"act">>, "model disclaimer", FALSE, 0)

InitConc ==
  /\ pc = [r \in Requests |-> "start"]
  /\ userName = [r \in Requests |-> ConcUser(r)]
  /\ channelName = [r \in Requests |-> ConcChannel(r)]
  /\ youtubeKey = TRUE
  /\ openaiKey = TRUE
  /\ allSearchResults = [c \in Requests |-> <<>>]
  /\ nextPageToken = [c \in Requests |-> NoToken]
  /\ pageCount = [c \in Requests |-> 0]
  /\ request = [r \in Requests |-> NoRequest]
  /\ i = [c \in Requests |-> 0]
  /\ allAnalyses = [c \in Requests |-> <<>>]
  /\ failedBatches = [c \in Requests |-> <<>>]
  /\ finalAnalysis = [r \in Requests |-> Unset]
  /\ status = [r \in Requests |-> 0]
  /\ response = [r \in Requests |-> Unset]
  /\ dispatched = [r \in Requests |-> <<>>]
  /\ threw = [r \in Requests |-> <<>>]
  /\ faults = [r \in Requests |-> 0]
  /\ caught = [r \in Requests |-> Nothing]
  /\ delivered = [r \in Requests |-> <<>>]
  /\ waited = 0
  /\ content = NoContent
  /\ browser = NoBrowser

ConcRespond(r, code, body) ==
  /\ status' = [status EXCEPT ![r] = code]
  /\ response' = [response EXCEPT ![r] = body]
  /\ pc' = [pc EXCEPT ![r] = "done"]

ConcDispatch(r, results, idx) ==
  /\ dispatched' = [dispatched EXCEPT ![r] =
                      Append(@, [batchNumber |-> batchNumberAt(idx),
                                 batch |-> sliceAt(results, idx),
                                 totalBatches |-> totalBatches(results)])]
  /\ pc' = [pc EXCEPT ![r] = "batch_await"]

\* lines 551-565: merge and the 200 report
ConcFinish(r, results, analyses, failed) ==
  /\ finalAnalysis' = [finalAnalysis EXCEPT ![r] = combineAnalyses(analyses)]
  /\ ConcRespond(r, 200, [userName |-> userName[r],
                          query |-> channelName[r],
                          totalVideosFound |-> Len(results),
                          batchesAnalyzed |-> Len(analyses),
                          batchesFailed |-> Len(failed),
                          failedBatchDetails |-> failed,
                          searchResults |-> results,
                          analysis |-> combineAnalyses(analyses)])

\* request r arrives: validation, mock test, the let bindings of lines 323-325
\* and the first page request
ConcReceive(r) ==
  /\ pc[r] = "start"
  /\ ~invalidInput(userName[r], channelName[r])
  /\ ~useMock(youtubeKey, openaiKey)
  /\ allSearchResults' = [allSearchResults EXCEPT ![Cell(r)] = <<>>]
  /\ nextPageToken' = [nextPageToken EXCEPT ![Cell(r)] = NoToken]
  /\ pageCount' = [pageCount EXCEPT ![Cell(r)] = 1]
  /\ request' = [request EXCEPT ![r] =
                   [maxResults |-> Min(maxResultsPerPage, targetResults),
                    pageToken |-> NoToken]]
  /\ pc' = [pc EXCEPT ![r] = "search_await"]
  /\ UNCHANGED <<aside, waited, userName, channelName, youtubeKey, openaiKey, i, allAnalyses,
                 failedBatches, finalAnalysis, status, response, dispatched, threw,
                 faults, caught, delivered>>

\* the search request of r fails
ConcSearchFail(r) ==
  /\ pc[r] = "search_await"
  /\ \E msg \in SearchErrors :
       /\ caught' = [caught EXCEPT ![r] = [stage |-> "search", at |-> pageCount[Cell(r)],
                                           message |-> msg]]
       /\ ConcRespond(r, 500, searchCatchBody(msg))
  /\ UNCHANGED <<aside, waited, userName, channelName, youtubeKey, openaiKey, allSearchResults,
                 nextPageToken, pageCount, request, i, allAnalyses, failedBatches,
                 finalAnalysis, dispatched, threw, faults, delivered>>

\* a page of k items arrives for r; the channel has at most two pages
ConcSearchPage(r) ==
  /\ pc[r] = "search_await"
  /\ \E k \in ConcPageSizes, token \in {NoToken, FreshToken(request[r].pageToken)} :
       LET c == Cell(r)
           page == [j \in 1..k |-> VideoBase(r) + Len(delivered[r]) + j]
           results == allSearchResults[c] \o page
       IN /\ k <= request[r].maxResults
          /\ token # NoToken => request[r].pageToken = NoToken
          /\ delivered' = [delivered EXCEPT ![r] = @ \o page]
          /\ allSearchResults' = [allSearchResults EXCEPT ![c] = results]
          /\ nextPageToken' = [nextPageToken EXCEPT ![c] = token]
          /\ IF Len(results) >= targetResults \/ token = NoToken
             THEN IF noResults(results)
                  THEN /\ ConcRespond(r, 404, [error |-> <<"No videos found for this channel">>])
                       /\ UNCHANGED <<dispatched, i, allAnalyses, failedBatches>>
                  ELSE /\ allAnalyses' = [allAnalyses EXCEPT ![c] = <<>>]
                       /\ failedBatches' = [failedBatches EXCEPT ![c] = <<>>]
                       /\ i' = [i EXCEPT ![c] = 0]
                       /\ ConcDispatch(r, results, 0)
                       /\ UNCHANGED <<status, response>>
             ELSE /\ pc' = [pc EXCEPT ![r] = "search_sleep"]
                  /\ UNCHANGED <<status, response, dispatched, i, allAnalyses, failedBatches>>
  /\ UNCHANGED <<aside, waited, userName, channelName, youtubeKey, openaiKey, pageCount, request,
                 finalAnalysis, threw, faults, caught>>

\* the 500 ms delay of r ends: loop condition, then the next page request
ConcSearchWake(r) ==
  /\ pc[r] = "search_sleep"
  /\ LET c == Cell(r)
     IN /\ Len(allSearchResults[c]) < targetResults /\ nextPageToken[c] # NoToken
        /\ pageCount' = [pageCount EXCEPT ![c] = Min(@ + 1, MaxPages)]
        /\ request' = [request EXCEPT ![r] =
                         [maxResults |-> Min(maxResultsPerPage,
                                             targetResults - Len(allSearchResults[c])),
                          pageToken |-> nextPageToken[c]]]
  /\ pc' = [pc EXCEPT ![r] = "search_await"]
  /\ UNCHANGED <<aside, waited, userName, channelName, youtubeKey, openaiKey, allSearchResults,
                 nextPageToken, i, allAnalyses, failedBatches, finalAnalysis,
                 status, response, dispatched, threw, faults, caught, delivered>>

\* analyzeBatch of r returns
ConcBatchSuccess(r) ==
  /\ pc[r] = "batch_await"
  /\ LET c == Cell(r)
         batch == sliceAt(allSearchResults[c], i[c])
         analyses == Append(allAnalyses[c], ConcAnalysis(batch, batchNumberAt(i[c])))
     IN /\ allAnalyses' = [allAnalyses EXCEPT ![c] = analyses]
        /\ threw' = [threw EXCEPT ![r] = Append(@, FALSE)]
        /\ IF i[c] + batchSize < Len(allSearchResults[c])
           THEN /\ pc' = [pc EXCEPT ![r] = "batch_sleep"]
                /\ UNCHANGED <<i, finalAnalysis, status, response>>
           ELSE /\ i' = [i EXCEPT ![c] = @ + batchSize]
                /\ ConcFinish(r, allSearchResults[c], analyses, failedBatches[c])
  /\ UNCHANGED <<aside, waited, userName, channelName, youtubeKey, openaiKey, allSearchResults,
                 nextPageToken, pageCount, request, failedBatches, dispatched, faults,
                 caught, delivered>>

\* the 1000 ms delay of r ends: the next batch is dispatched
ConcBatchWake(r) ==
  /\ pc[r] = "batch_sleep"
  /\ LET c == Cell(r)
     IN /\ i' = [i EXCEPT ![c] = @ + batchSize]
        /\ ConcDispatch(r, allSearchResults[c], i[c] + batchSize)
  /\ UNCHANGED <<aside, waited, userName, channelName, youtubeKey, openaiKey, allSearchResults,
                 nextPageToken, pageCount, request, allAnalyses, failedBatches,
                 finalAnalysis, status, response, threw, faults, caught, delivered>>

\* analyzeBatch of r throws: failure record, placeholder, and the loop goes on
ConcBatchFailure(r) ==
  /\ pc[r] = "batch_await"
  /\ faults[r] < MaxFaults
  /\ LET c == Cell(r)
         number == batchNumberAt(i[c])
         batch == sliceAt(allSearchResults[c], i[c])
         failed == recordFailure(failedBatches[c], number, ClassifierError(number), batch)
         analyses == pushPlaceholder(allAnalyses[c], number)
     IN /\ caught' = [caught EXCEPT ![r] = [stage |-> "batch", at |-> number,
                                            message |-> ClassifierError(number)]]
        /\ failedBatches' = [failedBatches EXCEPT ![c] = failed]
        /\ allAnalyses' = [allAnalyses EXCEPT ![c] = analyses]
        /\ threw' = [threw EXCEPT ![r] = Append(@, TRUE)]
        /\ faults' = [faults EXCEPT ![r] = @ + 1]
        /\ i' = [i EXCEPT ![c] = @ + batchSize]
        /\ IF i[c] + batchSize < Len(allSearchResults[c])
           THEN /\ ConcDispatch(r, allSearchResults[c], i[c] + batchSize)
                /\ UNCHANGED <<finalAnalysis, status, response>>
           ELSE /\ ConcFinish(r, allSearchResults[c], analyses, failed)
                /\ UNCHANGED dispatched
  /\ UNCHANGED <<aside, waited, userName, channelName, youtubeKey, openaiKey, allSearchResults,
                 nextPageToken, pageCount, request, delivered>>

NextConc ==
  \E r \in Requests :
    \/ ConcReceive(r)
    \/ ConcSearchFail(r)
    \/ ConcSearchPage(r)
    \/ ConcSearchWake(r)
    \/ ConcBatchSuccess(r)
    \/ ConcBatchWake(r)
    \/ ConcBatchFailure(r)

SpecConc == InitConc /\ [][NextConc]_vars

(* ------------------------------ claims --------------------------------- *)
RECURSIVE ConcatBatches(_, _)
\* the slices of the first n classifier calls, one after the other
ConcatBatches(calls, n) ==
  IF n = 0 THEN <<>> ELSE ConcatBatches(calls, n - 1) \o calls[n].batch

RangeOf(s) == {s[k] : k \in 1..Len(s)}
FirstIndex(s, x) == CHOOSE k \in 1..Len(s) : s[k] = x /\ \A j \in 1..(k - 1) : s[j] # x
FailedCalls == {k \in 1..Len(threw) : threw[k]}
BatchStageRan == dispatched # <<>>
ExpectedBatches == CeilDiv(Len(allSearchResults), batchSize)

\* C1: whatever classifier calls fail, every one of the ceil(N/10) batches is
\* dispatched; a failing call k leaves exactly one failure-marked placeholder at
\* position k of the accumulation list and one failure-detail record, and batch
\* k+1 is dispatched after it.
C1_FailuresNeverStopTheLoop ==
  BatchStageRan =>
    /\ Len(allAnalyses) = Len(threw)
    /\ Len(dispatched) <= ExpectedBatches
    /\ pc = "batch_await" => Len(dispatched) = Len(threw) + 1
    /\ pc = "done" => Len(dispatched) = ExpectedBatches /\ Len(threw) = ExpectedBatches
    /\ Len(failedBatches) = Cardinality(FailedCalls)
    /\ \A k \in FailedCalls :
         /\ allAnalyses[k] = FailurePlaceholder(k)
         /\ Cardinality({j \in 1..Len(failedBatches) :
                           failedBatches[j].batchNumber = k}) = 1
         /\ k < ExpectedBatches => Len(dispatched) >= k + 1

\* a ten-batch request whose first and a later call failed, and that went on to the end
C1_Witness ==
  /\ pc = "done"
  /\ Len(dispatched) = 10
  /\ 1 \in FailedCalls
  /\ Cardinality(FailedCalls) = 2

\* C2: once the search stage has delivered at least one video, the response is
\* 200 whatever the classifier calls return or throw.
C2_ClassifierOutcomeNeverGives500 ==
  (pc = "done" /\ BatchStageRan) => status = 200

\* C3: the calls carry the ordinals 1, 2, ... in order, each slice has between 1
\* and batchSize videos, the slices dispatched so far concatenate to a prefix of
\* the fetched sequence, and at the end there are ceil(N/10) of them and they
\* concatenate to the whole sequence.
C3_BatchesPartitionTheVideos ==
  LET n == Len(dispatched)
      cat == ConcatBatches(dispatched, n)
  IN /\ n <= ExpectedBatches
     /\ \A k \in 1..n :
          /\ dispatched[k].batchNumber = k
          /\ dispatched[k].totalBatches = ExpectedBatches
          /\ Len(dispatched[k].batch) \in 1..batchSize
     /\ cat = SubSeq(allSearchResults, 1, Len(cat))
     /\ n < ExpectedBatches => Len(cat) = n * batchSize
     /\ (pc = "done" /\ BatchStageRan) =>
          /\ n = ExpectedBatches
          /\ cat = allSearchResults
          /\ Cardinality(RangeOf(cat)) = Len(allSearchResults)

\* 35 videos: three full batches and a last one of five
C3_Witness ==
  /\ pc = "done"
  /\ Len(allSearchResults) = 35
  /\ Len(dispatched) = 4
  /\ Len(dispatched[4].batch) = 5

MergeDone == pc \in {"m_done", "m_again"} /\ finalAnalysis # Thrown

RECURSIVE RankedOfSuccessful(_)
\* the ranked_list of every batch whose call returned, in batch order
RankedOfSuccessful(n) ==
  IF n = 0 THEN <<>>
  ELSE RankedOfSuccessful(n - 1) \o
         (IF threw[n] THEN <<>> ELSE allAnalyses[n].ranked_list.items)

\* every returned output has a list (or no) ranked_list of entries with risk
\* High, Medium or Low: the returned outputs are batch analyses of the data model
OutputsWellFormed ==
  \A k \in 1..Len(allAnalyses) :
    ~threw[k] =>
      /\ allAnalyses[k].ranked_list.tag # "scalar"
      /\ \A e \in RangeOf(allAnalyses[k].ranked_list.items) : e.risk \in ValidRisks

RECURSIVE OnlyRisk(_, _)
OnlyRisk(s, r) ==
  IF s = <<>> THEN <<>>
  ELSE (IF Head(s).risk = r THEN <<Head(s)>> ELSE <<>>) \o OnlyRisk(Tail(s), r)

\* C4: the merged ranked_list holds the entries of the successful batches'
\* ranked_lists (nothing from failed batches), all High entries first, then all
\* Medium, then all Low, each group in the order of the concatenation.
C4_RankedListIsStableSortOfConcatenation ==
  (MergeDone /\ OutputsWellFormed) =>
    LET cat == RankedOfSuccessful(Len(allAnalyses))
    IN finalAnalysis.ranked_list =
         OnlyRisk(cat, "High") \o OnlyRisk(cat, "Medium") \o OnlyRisk(cat, "Low")

\* a failed batch among the inputs, and two entries of equal risk with an entry
\* of another risk between them, the later one outranked by a following entry
C4_Witness ==
  /\ MergeDone /\ OutputsWellFormed
  /\ FailedCalls # {}
  /\ LET cat == RankedOfSuccessful(Len(allAnalyses))
     IN \E a, b, c, d \in 1..Len(cat) :
          /\ a < b /\ b < c /\ c < d
          /\ cat[a].risk = "Medium" /\ cat[b].risk = "Low"
          /\ cat[c].risk = "Medium" /\ cat[d].risk = "High"

\* C5: the merged top_priority has at most 10 entries, no videoId twice, and is
\* the first (up to) 10 distinct videoIds of the concatenated top_priority
\* lists, in the order of their first occurrence.
C5_TopPriorityIsFirstTenDistinct ==
  MergeDone =>
    LET cat == allTopPriority(allAnalyses)
        tp == finalAnalysis.top_priority
    IN /\ Len(tp) <= 10
       /\ \A a, b \in 1..Len(tp) : tp[a] = tp[b] => a = b
       /\ Len(tp) = Min(10, Cardinality(RangeOf(cat)))
       /\ RangeOf(tp) \subseteq RangeOf(cat)
       /\ \A a, b \in 1..Len(tp) :
            a < b => FirstIndex(cat, tp[a]) < FirstIndex(cat, tp[b])
       /\ \A x \in RangeOf(cat), y \in RangeOf(tp) :
            FirstIndex(cat, x) < FirstIndex(cat, y) => x \in RangeOf(tp)

\* more than ten distinct videoIds, some of them repeated
C5_Witness ==
  /\ MergeDone
  /\ Cardinality(RangeOf(allTopPriority(allAnalyses))) > 10
  /\ Len(allTopPriority(allAnalyses)) > Cardinality(RangeOf(allTopPriority(allAnalyses)))
  /\ Len(finalAnalysis.top_priority) = 10

\* C6: a completed request reports batch_count = batchesAnalyzed = ceil(N/10)
\* and failed_batches = batchesFailed = length of failedBatchDetails = the number
\* of classifier calls that threw.
C6_FailureCountersAgree ==
  (pc = "done" /\ BatchStageRan /\ status = 200) =>
    /\ response.analysis.batch_count = ExpectedBatches
    /\ response.batchesAnalyzed = ExpectedBatches
    /\ response.batchesFailed = Cardinality(FailedCalls)
    /\ Len(response.failedBatchDetails) = Cardinality(FailedCalls)
    /\ response.analysis.failed_batches = Cardinality(FailedCalls)

Unmarked == {k \in 1..Len(allAnalyses) : ~allAnalyses[k].batch_failed}
FirstUnmarked == CHOOSE k \in Unmarked : \A j \in Unmarked : k <= j

\* C7 as stated: checklist, next_actions and disclaimer are those of the first
\* analysis that is not failure-marked, unchanged, also when its disclaimer is
\* the empty string; with every analysis failure-marked they are empty, empty
\* and the default disclaimer.
C7_TakenVerbatimFromFirstUnmarked ==
  MergeDone =>
    IF Unmarked = {}
    THEN /\ finalAnalysis.checklist = <<>>
         /\ finalAnalysis.next_actions = <<>>
         /\ finalAnalysis.disclaimer = DefaultDisclaimer
    ELSE /\ finalAnalysis.checklist = allAnalyses[FirstUnmarked].checklist
         /\ finalAnalysis.next_actions = allAnalyses[FirstUnmarked].next_actions
         /\ finalAnalysis.disclaimer = allAnalyses[FirstUnmarked].disclaimer

\* C7 amended: as above, except that an empty disclaimer of the first analysis
\* that is not failure-marked is replaced by the default disclaimer.
C7_FirstUnmarkedWithDefaultForEmptyDisclaimer ==
  MergeDone =>
    IF Unmarked = {}
    THEN /\ finalAnalysis.checklist = <<>>
         /\ finalAnalysis.next_actions = <<>>
         /\ finalAnalysis.disclaimer = DefaultDisclaimer
    ELSE /\ finalAnalysis.checklist = allAnalyses[FirstUnmarked].checklist
         /\ finalAnalysis.next_actions = allAnalyses[FirstUnmarked].next_actions
         /\ finalAnalysis.disclaimer =
              IF allAnalyses[FirstUnmarked].disclaimer = ""
              THEN DefaultDisclaimer
              ELSE allAnalyses[FirstUnmarked].disclaimer
         /\ finalAnalysis.disclaimer # PlaceholderDisclaimer

\* a failed first batch, then an output with an empty disclaimer, then one
\* with other values
C7_Witness ==
  /\ MergeDone
  /\ Len(allAnalyses) = 3
  /\ threw[1]
  /\ Unmarked # {}
  /\ FirstUnmarked = 2
  /\ allAnalyses[2].disclaimer = ""
  /\ allAnalyses[3].checklist # allAnalyses[2].checklist
  /\ finalAnalysis.checklist = allAnalyses[2].checklist

HighOrMedium(items) == {k \in 1..Len(items) : items[k].risk \in {"High", "Medium"}}

\* C8 as stated: the summary gives the number c of merged entries with risk High
\* or Medium, and the attention sentence is chosen exactly when c > 0.
C8_QualifierFollowsHighPlusMedium ==
  MergeDone =>
    LET c == Cardinality(HighOrMedium(finalAnalysis.ranked_list))
    IN /\ finalAnalysis.summary.count = c
       /\ finalAnalysis.summary.qualifier = "attention" <=> c > 0

\* C8 amended: the summary gives the number of merged entries with risk High or
\* Medium, and the attention sentence is chosen exactly when at least one
\* merged entry has risk High.
C8_QualifierFollowsHighOnly ==
  MergeDone =>
    LET items == finalAnalysis.ranked_list
    IN /\ finalAnalysis.summary.count = Cardinality(HighOrMedium(items))
       /\ finalAnalysis.summary.qualifier \in {"attention", "no_concerns"}
       /\ finalAnalysis.summary.qualifier = "attention" <=>
            \E k \in 1..Len(items) : items[k].risk = "High"

\* Medium entries, no High entry: the count is positive, the sentence is
\* the no-concerns one
C8_Witness ==
  /\ MergeDone
  /\ finalAnalysis.summary.count >= 2
  /\ \A k \in 1..Len(finalAnalysis.ranked_list) :
       finalAnalysis.ranked_list[k].risk # "High"
  /\ finalAnalysis.summary.qualifier = "no_concerns"

SearchStopped == Len(allSearchResults) >= targetResults \/ nextPageToken = NoToken

\* C9: every page request asks for between 1 and 50 results and for no more
\* than 100 minus the results accumulated, and passes the continuation token of
\* the previous page (none on the first); a request after the first is issued
\* only while fewer than 100 results are accumulated and the last page carried
\* a token, and the loop goes on to a next request whenever that is so.
C9_PaginationBoundsAndStop ==
  /\ pc = "search_await" =>
       /\ request.maxResults \in 1..maxResultsPerPage
       /\ request.maxResults <= targetResults - Len(allSearchResults)
       /\ request.pageToken = nextPageToken
       /\ pageCount = 1 => allSearchResults = <<>> /\ request.pageToken = NoToken
       /\ pageCount > 1 => ~SearchStopped
  /\ pc = "search_sleep" => ~SearchStopped
  /\ (pc \in {"batch_await", "batch_sleep"} \/ (pc = "done" /\ status \in {200, 404}
                                                  /\ pageCount > 0)) => SearchStopped

\* a third request for the 15 results still missing after pages of 35 and 50
C9_Witness ==
  /\ pc = "search_await"
  /\ Len(allSearchResults) = 85
  /\ request.maxResults = 15
  /\ request.pageToken # NoToken

\* C10: when the first page request fails the response is a 500 whose error is
\* the upstream message behind the search prefix, and the request is over: no
\* second page is requested and no classifier call is made.
C10_FirstPageFailureIs500 ==
  (caught.stage = "search" /\ caught.at = 1) =>
    /\ pc = "done"
    /\ status = 500
    /\ response = [error |-> <<"YouTube API error: ", caught.message>>]
    /\ pageCount = 1
    /\ dispatched = <<>>
    /\ allAnalyses = <<>>

C10_Witness ==
  /\ caught.stage = "search" /\ caught.at = 1
  /\ caught.message = "Request failed with status code 403"
  /\ status = 500

\* the search stage is over without an exception: the loop was left by its
\* break or its condition
SearchCompleted ==
  /\ pageCount > 0
  /\ pc \notin {"search_await", "search_sleep"}
  /\ caught.stage # "search"

\* C11: when the search stage completes with zero items accumulated, the
\* response is 404 with error 'No videos found for this channel' and no
\* classifier call is made; a 404 is sent in no other case.
C11_EmptySearchIs404 ==
  /\ (SearchCompleted /\ allSearchResults = <<>>) =>
       /\ pc = "done"
       /\ status = 404
       /\ response = [error |-> <<"No videos found for this channel">>]
       /\ dispatched = <<>>
       /\ allAnalyses = <<>>
       /\ threw = <<>>
  /\ status = 404 => (SearchCompleted /\ allSearchResults = <<>>)

\* an empty first page with a continuation token, then an empty last page
C11_Witness ==
  /\ status = 404
  /\ pageCount = 2
  /\ request.pageToken # NoToken
  /\ delivered = <<>>

\* C12: a request whose userName or channelName is missing or empty is
\* answered 400 with an error field, with or without API keys, and no search
\* request and no classifier call is made for it; a 400 is sent in no other case.
C12_InvalidInputIs400 ==
  /\ ((userName = "" \/ channelName = "") /\ pc # "start") =>
       /\ pc = "done"
       /\ status = 400
       /\ DOMAIN response = {"error"}
       /\ pageCount = 0
       /\ request = NoRequest
       /\ delivered = <<>>
       /\ dispatched = <<>>
  /\ status = 400 => (userName = "" \/ channelName = "")

\* both keys configured, userName given, channelName empty
C12_Witness ==
  /\ status = 400
  /\ userName = "Artist"
  /\ channelName = ""
  /\ youtubeKey /\ openaiKey

\* the ms part of the n-th clock reading recorded in a mock report
readingIn(report, n) ==
  IF n % 2 = 1 THEN report.searchResults[(n + 1) \div 2].publishedAt[2]
  ELSE report.searchResults[n \div 2].publishTime[2]

\* the run of the clock a mock report records
clockRunOf(report) ==
  [j \in 1..MaxClock |->
     Cardinality({n \in 1..clockReads : readingIn(report, n) < j})]

\* C13: a valid request with the search key or the text-generation key absent
\* is answered 200 with the mock report and makes no search request and no
\* classifier call; search requests and classifier calls are made only with
\* both keys present.
C13_MissingKeyGivesMock ==
  /\ (userName # "" /\ channelName # "" /\ (~youtubeKey \/ ~openaiKey) /\ pc # "start") =>
       /\ pc = "done"
       /\ status = 200
       /\ \E run \in {clockRunOf(response)} :
            response = generateMockResults(userName, channelName, run)
       /\ pageCount = 0
       /\ request = NoRequest
       /\ dispatched = <<>>
  /\ (pageCount > 0 \/ dispatched # <<>>) => (youtubeKey /\ openaiKey)

\* the search key is configured, the text-generation key is not
C13_Witness ==
  /\ pc = "done"
  /\ youtubeKey /\ ~openaiKey
  /\ status = 200
  /\ response.query = "ArtistOfficial"

MockMode == userName # "" /\ channelName # "" /\ (~youtubeKey \/ ~openaiKey)

\* C14: the mock report has totalVideosFound = 100 and batchesAnalyzed = 10,
\* its searchResults are 100 records with pairwise distinct non-empty videoIds,
\* and every ranked_list entry has risk High, Medium or Low.
C14_MockReportShape ==
  (MockMode /\ pc = "done") =>
    /\ response.totalVideosFound = 100
    /\ response.batchesAnalyzed = 10
    /\ Len(response.searchResults) = 100
    /\ Cardinality({v.videoId : v \in RangeOf(response.searchResults)}) = 100
    /\ \A v \in RangeOf(response.searchResults) : v.videoId # 0
    /\ \A e \in RangeOf(response.analysis.ranked_list) : e.risk \in ValidRisks

\* a mock report (no search key) whose ranked_list shows all three levels
C14_Witness ==
  /\ MockMode /\ pc = "done"
  /\ ~youtubeKey
  /\ {e.risk : e \in RangeOf(response.analysis.ranked_list)} = ValidRisks

ReportFields ==
  {"userName", "query", "totalVideosFound", "batchesAnalyzed", "batchesFailed",
   "failedBatchDetails", "searchResults", "analysis"}
AnalysisFields ==
  {"summary", "ranked_list", "top_priority", "checklist", "next_actions",
   "disclaimer", "batch_count", "failed_batches"}

\* C15: every 200 report, mock or real, has the same eight top-level fields
\* and the same eight fields inside analysis.
C15_MockHasTheFieldsOfARealReport ==
  (pc = "done" /\ status = 200) =>
    /\ DOMAIN response = ReportFields
    /\ DOMAIN response.analysis = AnalysisFields

\* classifier calls issued and not yet returned or failed
ClassifierInFlight == Len(dispatched) - Len(threw)

\* C16: at most one outbound call is in flight: a classifier call exactly while
\* the handler awaits a batch, never while a search request is awaited; the
\* first classifier call is issued only after the search stage stopped; the
\* calls carry the ordinals 1, 2, ... in the order of issue, and a call is
\* issued only when every earlier one has returned or failed.
C16_OneCallAtATime ==
  /\ ClassifierInFlight \in {0, 1}
  /\ ClassifierInFlight = 1 <=> pc = "batch_await"
  /\ pc \in {"start", "search_await", "search_sleep"} => dispatched = <<>>
  /\ dispatched # <<>> => (SearchStopped /\ SearchCompleted)
  /\ \A k \in 1..Len(dispatched) : dispatched[k].batchNumber = k

\* after two pages, the third classifier call awaited, the first having failed
C16_Witness ==
  /\ pc = "batch_await"
  /\ pageCount = 2
  /\ Len(dispatched) = 3
  /\ threw = <<TRUE, FALSE>>

\* C18: an item without id object or snippet object does not fail the page:
\* every delivered item is accumulated, and the search stage answers 500 only
\* when the search request itself failed.
C18_ItemWithoutIdOrSnippetIsTolerated ==
  /\ Len(allSearchResults) = Len(delivered)
  /\ (status = 500 /\ caught.stage = "search") => caught.message \in SearchErrors

InvalidRiskIn(a) == \E e \in RangeOf(RankedItemsOf(a)) : e.risk \notin ValidRisks

\* C19: a classifier output with a ranked_list entry whose risk is absent or
\* not High, Medium or Low counts as a failed batch (its place in the
\* accumulation list is failure-marked), and the merged ranked_list has no
\* entry with such a risk (outputs whose ranked_list is an array or absent).
C19_InvalidRiskFailsTheBatch ==
  (MergeDone /\ \A k \in 1..Len(allAnalyses) : allAnalyses[k].ranked_list.tag # "scalar") =>
    /\ \A k \in 1..Len(allAnalyses) :
         InvalidRiskIn(allAnalyses[k]) => allAnalyses[k].batch_failed
    /\ \A e \in RangeOf(finalAnalysis.ranked_list) : e.risk \in ValidRisks

CountOf(s, e) == Cardinality({k \in 1..Len(s) : s[k] = e})
SameMultiset(s, u) ==
  /\ Len(s) = Len(u)
  /\ \A e \in RangeOf(s) \cup RangeOf(u) : CountOf(s, e) = CountOf(u, e)

\* C20: merging the one-element list made of a merge result gives a
\* ranked_list with the same multiset of entries and a top_priority with the
\* same set of videoIds as that result.
C20_MergeOfMergeKeepsEntries ==
  pc = "m_again" =>
    /\ SameMultiset(response.ranked_list, finalAnalysis.ranked_list)
    /\ RangeOf(response.top_priority) = RangeOf(finalAnalysis.top_priority)

\* a first merge that reordered at least four entries and cut ten
\* top-priority ids from more
C20_Witness ==
  /\ pc = "m_again"
  /\ Len(finalAnalysis.ranked_list) >= 4
  /\ finalAnalysis.ranked_list # allRankedLists(allAnalyses)
  /\ Len(finalAnalysis.top_priority) = 10
  /\ Cardinality(RangeOf(allTopPriority(allAnalyses))) > 10

RECURSIVE AloneFailures(_, _, _)
\* the failure records of a request that runs alone: one per call that threw
AloneFailures(items, outcomes, n) ==
  IF n = 0 THEN <<>>
  ELSE LET before == AloneFailures(items, outcomes, n - 1)
       IN IF outcomes[n]
          THEN recordFailure(before, n, ClassifierError(n),
                             sliceAt(items, (n - 1) * batchSize))
          ELSE before

\* the report of a request that runs alone, given the items the search API
\* delivered to it and, for each of its classifier calls, whether it threw
AloneReport(user, channel, items, outcomes) ==
  LET analyses == [k \in 1..Len(outcomes) |->
                     IF outcomes[k] THEN FailurePlaceholder(k)
                     ELSE ConcAnalysis(sliceAt(items, (k - 1) * batchSize), k)]
      failed == AloneFailures(items, outcomes, Len(outcomes))
  IN [userName |-> user,
      query |-> channel,
      totalVideosFound |-> Len(items),
      batchesAnalyzed |-> Len(outcomes),
      batchesFailed |-> Len(failed),
      failedBatchDetails |-> failed,
      searchResults |-> items,
      analysis |-> combineAnalyses(analyses)]

\* C17: with two requests interleaved at their awaits, every classifier call of
\* a request carries only videos delivered to that request, and its response is
\* the one it would get alone against the same upstream responses: the 200
\* report computed from its own items and its own call outcomes, 404 exactly
\* when its search ended with nothing delivered.
C17_RequestsDoNotInterfere ==
  \A r \in Requests :
    /\ \A k \in 1..Len(dispatched[r]) :
         /\ dispatched[r][k].batchNumber = k
         /\ dispatched[r][k].batch = sliceAt(delivered[r], (k - 1) * batchSize)
    /\ status[r] = 200 =>
         /\ Len(threw[r]) = CeilDiv(Len(delivered[r]), batchSize)
         /\ response[r] = AloneReport(ConcUser(r), ConcChannel(r), delivered[r], threw[r])
    /\ status[r] = 404 => delivered[r] = <<>>
    /\ (pc[r] = "done" /\ delivered[r] = <<>>) => status[r] \in {404, 500}
    /\ status[r] = 500 => caught[r].stage = "search"

\* request 1 is answered (three batches, the second failed) while request 2,
\* with other items, awaits its second batch
C17_Witness ==
  /\ status[1] = 200
  /\ threw[1] = <<FALSE, TRUE, FALSE>>
  /\ pc[2] = "batch_await"
  /\ Len(dispatched[2]) = 2
  /\ Len(delivered[2]) = ShortPage + batchSize
  /\ response[1].batchesFailed = 1

\* C21: a call of combineAnalyses issues no outbound call and, when it has
\* returned or thrown, every batch analysis of the list it was given is what
\* it was before the call, each ranked_list array in its order and contents;
\* a second call on the same list does the same and its outcome equals the
\* outcome of the first.
C21_MergeIsPureAndDeterministic ==
  [][/\ ((pc = "m_build" /\ pc' = "m_done") \/ (pc = "m_done" /\ pc' = "m_twice")) =>
          /\ Len(allAnalyses') = Len(allAnalyses)
          /\ \A k \in 1..Len(allAnalyses) : allAnalyses'[k] = allAnalyses[k]
          /\ dispatched' = dispatched /\ request' = request /\ pageCount' = pageCount
     /\ (pc = "m_done" /\ pc' = "m_twice") => response' = finalAnalysis]_vars

\* two calls on a list of batches, one of them with three or more entries out
\* of risk order: the sort moved entries in the result of each call, and the
\* batch still has them in classifier order
C21_Witness ==
  /\ pc = "m_twice" /\ finalAnalysis # Thrown /\ response # Thrown
  /\ Len(allAnalyses) >= 2
  /\ Len(response.ranked_list) >= 3
  /\ response.ranked_list # allRankedLists(allAnalyses)
  /\ \E k \in 1..Len(allAnalyses) :
       /\ Len(allAnalyses[k].ranked_list.items) >= 3
       /\ allAnalyses[k].ranked_list.items # SortByRisk(allAnalyses[k].ranked_list.items)

\* C22: the mock report depends on userName and channelName only: the report
\* of a call equals the report of a call with the same names at any other
\* time, timestamps included.
C22_MockReportIndependentOfTime ==
  (MockMode /\ pc = "done") =>
    \A run \in ClockRuns : response = generateMockResults(userName, channelName, run)

\* ---------------------------------------------------------------------
\* Parsing the classifier's output text
\* ---------------------------------------------------------------------
\* A text is a sequence of pieces; the string is their concatenation. The
\* pieces are chosen so that no concatenation of two of them forms another
\* JSON token.
MaxText == 4
Space == " "
\* the code fence, three backquotes
Fence == "<fence>"
Pieces == {"{", "}", "\"a\":", "null", Space, "Sure", Fence, "json"}
Texts == UNION {[1..n -> Pieces] : n \in 0..MaxText}

SyntaxError == [syntaxError |-> TRUE]
NotJSONError == [error |-> "Model did not return valid JSON"]
\* error.message of the SyntaxError: the engine's wording depends on the text
SyntaxErrorMessage(text) == <<"SyntaxError: not valid JSON: ", text>>

\* the position after the JSON value that starts at position p of the pieces
\* t (whitespace already skipped), 0 when no value starts there: a value is
\* null, {} or {"a": value}
RECURSIVE parseValue(_, _)
parseValue(t, p) ==
  IF p > Len(t) THEN 0
  ELSE IF t[p] = "null" THEN p + 1
  ELSE IF t[p] # "{" \/ p + 1 > Len(t) THEN 0
  ELSE IF t[p + 1] = "}" THEN p + 2
  ELSE IF t[p + 1] # "\"a\":" THEN 0
  ELSE LET q == parseValue(t, p + 2)
       IN  IF q # 0 /\ q <= Len(t) /\ t[q] = "}" THEN q + 1 ELSE 0

\* JSON.parse(text): the value (written without whitespace), or a SyntaxError
\* unless the whole text is one value with optional whitespace around tokens
JSONparse(text) ==
  LET t == SelectSeq(text, LAMBDA c : c # Space)
  IN  IF parseValue(t, 1) = Len(t) + 1 THEN [value |-> t] ELSE SyntaxError

\* String.prototype.trim
RECURSIVE trimStart(_)
trimStart(text) ==
  IF text # <<>> /\ Head(text) = Space THEN trimStart(Tail(text)) ELSE text

RECURSIVE trimEnd(_)
trimEnd(text) ==
  IF text # <<>> /\ text[Len(text)] = Space
  THEN trimEnd(SubSeq(text, 1, Len(text) - 1)) ELSE text

trim(text) == trimEnd(trimStart(text))

\* the first replace of line 35: an opening fence, an optional json, whitespace
stripOpeningFence(text) ==
  IF text # <<>> /\ Head(text) = Fence
  THEN LET rest == Tail(text)
       IN  trimStart(IF rest # <<>> /\ Head(rest) = "json" THEN Tail(rest) ELSE rest)
  ELSE text

\* the second replace of line 35: a fence that ends the text
stripClosingFence(text) ==
  IF text # <<>> /\ text[Len(text)] = Fence
  THEN SubSeq(text, 1, Len(text) - 1) ELSE text

\* indexOf('{') and lastIndexOf('}'), 1-based, 0 for the -1 of the source
indexOfOpen(text) ==
  IF \E k \in 1..Len(text) : text[k] = "{"
  THEN CHOOSE k \in 1..Len(text) :
         text[k] = "{" /\ \A j \in 1..(k - 1) : text[j] # "{"
  ELSE 0

lastIndexOfClose(text) ==
  IF \E k \in 1..Len(text) : text[k] = "}"
  THEN CHOOSE k \in 1..Len(text) :
         text[k] = "}" /\ \A j \in (k + 1)..Len(text) : text[j] # "}"
  ELSE 0

\* mutant of the fallback: no second attempt
candidateParse_None(fenced) == NotJSONError

\* the fallback of extractJSON: parse the slice from the first { to the last }
candidateParse(fenced) ==
  LET first == indexOfOpen(fenced)
      last == lastIndexOfClose(fenced)
  IN  IF first # 0 /\ last # 0 /\ last > first
      THEN LET parsed == JSONparse(SubSeq(fenced, first, last))
           IN  IF parsed # SyntaxError THEN parsed ELSE NotJSONError
      ELSE NotJSONError

\* test.js extractJSON(text)
extractJSON(text) ==
  LET fenced == stripClosingFence(stripOpeningFence(trim(text)))
      direct == JSONparse(fenced)
  IN  IF direct # SyntaxError THEN direct ELSE candidateParse(fenced)

\* server.js analyzeBatch: return JSON.parse(completion.choices[0].message.content)
analyzeBatchParse(text) == JSONparse(text)

NonJSONBody == [error |-> "Model returned non-JSON output. Please retry."]

InitParse ==
  /\ pc = "p_start"
  /\ content \in Texts
  /\ userName = "Artist"
  /\ channelName = "ArtistOfficial"
  /\ youtubeKey = TRUE
  /\ openaiKey = TRUE
  /\ allSearchResults = [k \in 1..ShortPage |-> k]
  /\ nextPageToken = NoToken
  /\ pageCount = 0
  /\ request = NoRequest
  /\ i = 0
  /\ allAnalyses = <<>>
  /\ failedBatches = <<>>
  /\ finalAnalysis = Unset
  /\ status = 0
  /\ response = Unset
  /\ dispatched = <<>>
  /\ threw = <<>>
  /\ faults = 0
  /\ caught = Nothing
  /\ delivered = <<>>
  /\ waited = 0
  /\ browser = NoBrowser

\* server.js: the classifier call of batch 1 returns the text; analyzeBatch
\* parses it, and the loop pushes the value or, on a throw, the placeholder
ParseBatch ==
  /\ pc = "p_start"
  /\ pc' = "p_batch"
  /\ LET batch == sliceAt(allSearchResults, i)
         number == batchNumberAt(i)
         parsed == analyzeBatchParse(content)
     IN  IF parsed = SyntaxError
         THEN /\ caught' = [stage |-> "batch", at |-> number,
                            message |-> SyntaxErrorMessage(content)]
              /\ failedBatches' = recordFailure(failedBatches, number,
                                                SyntaxErrorMessage(content), batch)
              /\ allAnalyses' = pushPlaceholder(allAnalyses, number)
              /\ threw' = Append(threw, TRUE)
         ELSE /\ allAnalyses' = Append(allAnalyses, parsed)
              /\ threw' = Append(threw, FALSE)
              /\ UNCHANGED <<caught, failedBatches>>
  /\ i' = i + batchSize
  /\ UNCHANGED <<aside, waited, userName, channelName, youtubeKey, openaiKey,
                 allSearchResults, nextPageToken, pageCount, request,
                 finalAnalysis, status, response, dispatched,
                 faults, delivered>>

\* test.js, the single-call handler: extractJSON(raw), 502 when it throws
ParseSingleCall ==
  /\ pc = "p_start"
  /\ pc' = "p_single"
  /\ LET parsed == extractJSON(content)
     IN  IF parsed = NotJSONError
         THEN /\ status' = 502
              /\ response' = NonJSONBody
         ELSE /\ status' = 200
              /\ response' = parsed
  /\ UNCHANGED <<aside, waited, userName, channelName, youtubeKey, openaiKey,
                 allSearchResults, nextPageToken, pageCount, request, i,
                 allAnalyses, failedBatches, finalAnalysis, dispatched, threw,
                 faults, caught, delivered>>

NextParse == ParseBatch \/ ParseSingleCall

SpecParse == InitParse /\ [][NextParse]_vars

\* C25: the classifier's output text of a batch is parsed in two stages, the
\* direct parse and then the slice from the first { to the last }; the batch
\* is failure-marked only when both fail, and otherwise the batch analysis is
\* the value of the first stage that succeeds. Stated for texts without
\* code fences, where extractJSON is exactly these two stages.
C25_TwoStageParseOfBatchOutput ==
  (pc = "p_batch" /\ \A k \in 1..Len(content) : content[k] # Fence) =>
    /\ threw[1] <=> extractJSON(content) = NotJSONError
    /\ ~threw[1] => allAnalyses[1] = extractJSON(content)

\* ---------------------------------------------------------------------
\* The browser form (public script): submit handler and its display helpers
\* ---------------------------------------------------------------------
\* submissions whose fetch can be outstanding at the same time; the submit
\* button is never disabled, so nothing in the script limits the number
MaxInFlight == 2
Slots == 1..MaxInFlight

FieldUserNames == {"", "Artist"}
FieldChannelNames == {"", "ArtistOfficial", "OtherChannel"}

Idle == [stage |-> "idle"]
FillAllFields == "Please fill in all fields"
SomethingWentWrong == "Something went wrong"
FetchFailed == "Failed to fetch"
NotJSONBody == "Unexpected token < in JSON"
AnalysisErrorPrefix == "An error occurred during analysis: "
DisplayTypeError == "Cannot read properties of undefined"

\* what the server can answer to a request for `query`: a report (complete, or
\* lacking a field displayResults reads), an error body with or without an
\* error field, or a body that is not JSON
FormResponses(query) ==
  {[ok |-> TRUE, json |-> TRUE, data |-> [query |-> query, complete |-> c]] : c \in BOOLEAN}
    \cup {[ok |-> FALSE, json |-> TRUE, data |-> [error |-> e]] :
            e \in {"YouTube API error: quotaExceeded", ""}}
    \cup {[ok |-> FALSE, json |-> FALSE, data |-> [error |-> ""]]}

\* showError(message)
showError(b, message) == [b EXCEPT !.errorText = message, !.errorMessage = "block"]

\* hideError()
hideError(b) == [b EXCEPT !.errorMessage = "none"]

\* if (!userName || !channelName) { showError(...); return; }
rejectSubmit(b) == showError(b, FillAllFields)

\* finally { loadingIndicator.style.display = 'none' } and the handler ends
finallyHideLoading(b, s) ==
  [b EXCEPT !.loadingIndicator = "none", !.pending[s] = Idle]

\* catch (error) { showError('An error occurred during analysis: ' + error.message) }
catchError(b, message) == showError(b, <<AnalysisErrorPrefix, message>>)

\* displayResults(results): queryDisplay is written first; a report lacking a
\* field throws before the container is shown
displayResults(b, results) ==
  IF results.complete
  THEN [b EXCEPT !.queryDisplay = results.query, !.resultsContainer = "block"]
  ELSE catchError([b EXCEPT !.queryDisplay = results.query], DisplayTypeError)

\* errorMessage, resultsContainer and loadingIndicator hold the style.display
\* of the three elements: "" until the script assigns "block" or "none"
InitForm ==
  /\ pc = "form"
  /\ browser = [errorMessage |-> "", errorText |-> "", resultsContainer |-> "",
                loadingIndicator |-> "", queryDisplay |-> "",
                pending |-> [s \in Slots |-> Idle]]
  /\ userName = "Artist"
  /\ channelName = "ArtistOfficial"
  /\ youtubeKey = TRUE
  /\ openaiKey = TRUE
  /\ allSearchResults = <<>>
  /\ nextPageToken = NoToken
  /\ pageCount = 0
  /\ request = NoRequest
  /\ i = 0
  /\ allAnalyses = <<>>
  /\ failedBatches = <<>>
  /\ finalAnalysis = Unset
  /\ status = 0
  /\ response = Unset
  /\ dispatched = <<>>
  /\ threw = <<>>
  /\ faults = 0
  /\ caught = Nothing
  /\ delivered = <<>>
  /\ waited = 0
  /\ content = NoContent

FormFrame ==
  UNCHANGED <<pc, content, waited, userName, channelName, youtubeKey, openaiKey,
              allSearchResults, nextPageToken, pageCount, request, i, allAnalyses,
              failedBatches, finalAnalysis, status, response, dispatched, threw,
              faults, caught, delivered>>

\* the submit event: validation, then the synchronous part up to await fetch
Submit ==
  /\ pc = "form"
  /\ \E user \in FieldUserNames, channel \in FieldChannelNames :
       IF user = "" \/ channel = ""
       THEN browser' = rejectSubmit(browser)
       ELSE \E s \in Slots :
              /\ browser.pending[s] = Idle
              /\ browser' = [hideError(browser) EXCEPT
                               !.resultsContainer = "none",
                               !.loadingIndicator = "block",
                               !.pending[s] = [stage |-> "fetch", query |-> channel]]
  /\ FormFrame

\* fetch rejects (no connection): catch, finally
FetchRejects ==
  /\ pc = "form"
  /\ \E s \in Slots :
       /\ browser.pending[s].stage = "fetch"
       /\ browser' = finallyHideLoading(catchError(browser, FetchFailed), s)
  /\ FormFrame

\* fetch resolves with a response; the handler awaits response.json()
FetchResolves ==
  /\ pc = "form"
  /\ \E s \in Slots :
       /\ browser.pending[s].stage = "fetch"
       /\ \E resp \in FormResponses(browser.pending[s].query) :
            browser' = [browser EXCEPT !.pending[s] = [stage |-> "json", resp |-> resp]]
  /\ FormFrame

\* response.json() settles: the rest of the try block, catch, finally
BodyRead ==
  /\ pc = "form"
  /\ \E s \in Slots :
       /\ browser.pending[s].stage = "json"
       /\ LET resp == browser.pending[s].resp
              after == IF ~resp.json THEN catchError(browser, NotJSONBody)
                       ELSE IF ~resp.ok
                       THEN catchError(browser, IF resp.data.error # ""
                                                THEN resp.data.error
                                                ELSE SomethingWentWrong)
                       ELSE displayResults(browser, resp.data)
          IN  browser' = finallyHideLoading(after, s)
  /\ FormFrame

NextForm == Submit \/ FetchRejects \/ FetchResolves \/ BodyRead

SpecForm == InitForm /\ [][NextForm]_vars

InFlight == {s \in Slots : browser.pending[s] # Idle}

\* C29: in the browser form the error message and the results container are
\* never both visible (display "block"), after any sequence of submissions.
C29_ErrorAndResultsNeverBothShown ==
  pc = "form" => ~(browser.errorMessage = "block" /\ browser.resultsContainer = "block")

\* C30: the loading indicator is visible (display "block") while at least one
\* request issued by the form is in flight, and once the script has set its
\* display it is hidden (display "none") whenever none is in flight.
C30_LoadingShownWhileInFlight ==
  pc = "form" =>
    /\ InFlight # {} => browser.loadingIndicator = "block"
    /\ (InFlight = {} /\ browser.loadingIndicator # "") => browser.loadingIndicator = "none"

\* C23: every classifier call after the first is issued after a pacing wait
\* of at least 1000 ms since the previous call returned or failed, and no
\* wait follows the last batch.
C23_PacingWaitBetweenBatches ==
  /\ (pc = "batch_await" /\ Len(dispatched) >= 2) => waited >= batchDelayMs
  /\ pc = "batch_sleep" => i + batchSize < Len(allSearchResults)
  /\ (pc = "done" /\ BatchStageRan) => waited = 0

\* C24: after the batch loop the accumulation list has one element per batch,
\* at the position of its ordinal: for a call that threw, a placeholder with
\* empty ranked_list, top_priority, checklist and next_actions, the failure
\* marker and batch_number equal to the position; for a call that returned,
\* the value it returned. The failure-detail list holds one record per call
\* that threw, in increasing batchNumber, its videosInBatch the size of the
\* slice of that batch.
C24_AccumulationAndFailureDetails ==
  (pc = "done" /\ BatchStageRan) =>
    /\ Len(allAnalyses) = ExpectedBatches
    /\ \A k \in 1..Len(allAnalyses) :
         IF threw[k]
         THEN /\ allAnalyses[k].ranked_list = RankedList(<<>>)
              /\ allAnalyses[k].top_priority = <<>>
              /\ allAnalyses[k].checklist = <<>>
              /\ allAnalyses[k].next_actions = <<>>
              /\ allAnalyses[k].batch_failed
              /\ allAnalyses[k].batch_number = k
         ELSE allAnalyses[k] \in {PlainAnalysis(dispatched[k].batch, k)}
                                   \cup OddAnalyses(dispatched[k].batch, k)
    /\ {failedBatches[j].batchNumber : j \in 1..Len(failedBatches)} = FailedCalls
    /\ \A a, b \in 1..Len(failedBatches) :
         a < b => failedBatches[a].batchNumber < failedBatches[b].batchNumber
    /\ \A j \in 1..Len(failedBatches) :
         /\ failedBatches[j].videosInBatch =
              Len(dispatched[failedBatches[j].batchNumber].batch)
         /\ failedBatches[j].error = ClassifierError(failedBatches[j].batchNumber)

\* 35 videos, the second batch and the last one (five videos) failed
C24_Witness ==
  /\ pc = "done"
  /\ Len(allSearchResults) = 35
  /\ threw = <<FALSE, TRUE, FALSE, TRUE>>
  /\ failedBatches[2].batchNumber = 4
  /\ failedBatches[2].videosInBatch = 5

\* C26: the first page request is issued without a wait, every later one after
\* a pacing wait of at least 500 ms since the previous page arrived; a wait is
\* started only when another page request follows, so none follows the last page.
C26_PacingWaitBetweenPages ==
  /\ (pc = "search_await" /\ pageCount = 1) => waited = 0
  /\ (pc = "search_await" /\ pageCount >= 2) => waited >= searchDelayMs
  /\ pc = "search_sleep" => ~SearchStopped
  /\ (pc = "batch_await" /\ Len(dispatched) = 1) => waited = 0
  /\ status = 404 => waited = 0

\* the second page request, issued after the wait that followed a page of 35
C26_Witness ==
  /\ pc = "search_await"
  /\ pageCount = 2
  /\ Len(allSearchResults) = 35
  /\ waited = searchDelayMs

\* C27: if every call returns, the search stage comes to an end.
C27_SearchStageTerminates ==
  <>(pc \notin {"start", "search_await", "search_sleep"})

\* C28: when a page request after the first fails, the response is the 500 of
\* the search stage with the error message only, whatever was accumulated, and
\* no classifier call is made and nothing is merged.
C28_LaterPageFailureIsFatal ==
  (caught.stage = "search" /\ caught.at >= 2) =>
    /\ pc = "done"
    /\ status = 500
    /\ response = [error |-> <<"YouTube API error: ", caught.message>>]
    /\ dispatched = <<>>
    /\ allAnalyses = <<>>
    /\ finalAnalysis = Unset

\* the second page request fails with 50 results accumulated
C28_Witness ==
  /\ caught.stage = "search" /\ caught.at = 2
  /\ Len(allSearchResults) = 50
  /\ status = 500

====
